---- MODULE Spec2Model ----
(***************************************************************************)
(* A model of the CLV engine, class CLTVModel of                           *)
(* src/CLV_Analysis/Models/CLTV.py: the Aggregator (calculate_sales_amount)*)
(* the RFM Builder (calculate_cltv_pr and its helpers) and the stages that *)
(* follow it.                                                              *)
(*                                                                         *)
(* Representation.                                                         *)
(*  - A pandas DataFrame is a record [kind, cols, iname, index, rows]: cols *)
(*    the set of its column names, iname the name of its index ("" for a   *)
(*    RangeIndex), index the sequence of its row labels, rows the sequence *)
(*    of its rows, each a record with one field per column.                *)
(*  - A pandas Series is a record [kind, name, iname, index, data].        *)
(*  - Python's None is NoneV.                                              *)
(*  - A date is a day number: the date column holds ISO "YYYY-MM-DD"       *)
(*    strings (data_generator.py:134), whose string order is their         *)
(*    chronological order, so max() of the raw column and max() of the     *)
(*    parsed column agree, and a difference of two Timestamps in .days is  *)
(*    the difference of the day numbers.                                   *)
(*  - unit_price, quantity and sales_amount are integers.                  *)
(*  - A float that a division produced is the exact rational <<n, d>>,     *)
(*    d > 0, kept as the division left it; NaN is <<0, 0>>.                *)
(***************************************************************************)
EXTENDS Integers, Sequences, FiniteSets, TLC

\* Bounds of the model.
MaxRows == 2
MaxCust == 2
MaxTx == 2
MaxDate == 2
MaxPrice == 2
MaxQty == 2
MaxLoads == 1
MaxClv == 2
MaxMerges == 1
PipeCust == 3
InputRows == 1
MaxSegCust == 5
MaxSegClv == 5

\* The default day offset of _calculate_recency_today and the days of a week.
DefaultDays == 1
DaysPerWeek == 7

VARIABLES
  db,     \* the rows the query of load_data joins from the database
  m,      \* the CLTVModel instance: its attributes
  udf,    \* a DataFrame of the same rows that the caller holds and may pass as df=
  loads,  \* the number of load_data calls made
  merges, \* the number of merge_cltv_predictions calls that returned
  call    \* the last call made on the engine: operation, argument, outcome

vars == <<db, m, udf, loads, merges, call>>

----------------------------------------------------------------------------
\* Values

NoneV == [kind |-> "None"]
IsNone(x) == x.kind = "None"

NaN == <<0, 0>>
Rat(n) == <<n, 1>>
IsNaN(x) == x[1] = 0 /\ x[2] = 0
\* The float infinity a division of a positive float by zero gives.
Inf == <<1, 0>>
IsInf(x) == x[1] # 0 /\ x[2] = 0
\* x / k for a rational x and a number k (pandas float division).
RatDiv(x, k) == IF IsNaN(x) THEN NaN ELSE <<x[1], x[2] * k>>
RatEq(x, y) == ~IsNaN(x) /\ ~IsNaN(y) /\ x[1] * y[2] = y[1] * x[2]
RatLe(x, y) == ~IsNaN(x) /\ ~IsNaN(y) /\ x[1] * y[2] <= y[1] * x[2]
RatLt(x, y) == ~IsNaN(x) /\ ~IsNaN(y) /\ x[1] * y[2] < y[1] * x[2]
\* x * y and x / y for non-negative floats x and y: x / 0 is inf for x > 0 and
\* NaN for x = 0, inf * y is inf for y > 0 and NaN for y = 0.
RatMul(x, y) ==
  IF IsNaN(x) \/ IsNaN(y) THEN NaN
  ELSE IF IsInf(x) \/ IsInf(y)
    THEN IF x[1] = 0 \/ y[1] = 0 THEN NaN ELSE Inf
  ELSE <<x[1] * y[1], x[2] * y[2]>>
RatDivRat(x, y) ==
  IF IsNaN(x) \/ IsNaN(y) THEN NaN
  ELSE IF IsInf(y) THEN IF IsInf(x) THEN NaN ELSE <<0, 1>>
  ELSE IF IsInf(x) THEN Inf
  ELSE IF y[1] = 0 THEN IF x[1] = 0 THEN NaN ELSE Inf
  ELSE <<x[1] * y[2], x[2] * y[1]>>

Range(s) == {s[i] : i \in 1..Len(s)}

RECURSIVE SortedSeq(_)
\* The elements of a finite set of integers in ascending order.
SortedSeq(S) ==
  IF S = {} THEN <<>>
  ELSE LET lo == CHOOSE x \in S : \A y \in S : x <= y
       IN <<lo>> \o SortedSeq(S \ {lo})

RECURSIVE SumSeq(_)
SumSeq(s) == IF s = <<>> THEN 0 ELSE Head(s) + SumSeq(Tail(s))

SetMax(S) == CHOOSE x \in S : \A y \in S : y <= x
SetMin(S) == CHOOSE x \in S : \A y \in S : x <= y

----------------------------------------------------------------------------
\* DataFrames and Series

DataFrame(cols, iname, index, rows) ==
  [kind |-> "DataFrame", cols |-> cols, iname |-> iname, index |-> index,
   rows |-> rows]

Series(name, iname, index, data) ==
  [kind |-> "Series", name |-> name, iname |-> iname, index |-> index,
   data |-> data]

\* df[c]
Col(df, c) ==
  Series(c, df.iname, df.index, [i \in 1..Len(df.rows) |-> df.rows[i][c]])

\* The position of label l in an index (0 when absent).
Pos(index, l) ==
  IF \E i \in 1..Len(index) : index[i] = l
  THEN CHOOSE i \in 1..Len(index) : index[i] = l
  ELSE 0

\* The value of a float Series at label l, NaN where it has none (alignment).
At(s, l) == IF Pos(s.index, l) = 0 THEN NaN ELSE s.data[Pos(s.index, l)]

\* df[c] = s for a Series s: s is aligned on df's index.
SetColAligned(df, c, s) ==
  DataFrame(df.cols \cup {c}, df.iname, df.index,
    [i \in 1..Len(df.rows) |->
       [k \in df.cols \cup {c} |->
          IF k = c THEN At(s, df.index[i]) ELSE df.rows[i][k]]])

\* df[c] = s for a Series s with df's own index.
SetCol(df, c, s) ==
  DataFrame(df.cols \cup {c}, df.iname, df.index,
    [i \in 1..Len(df.rows) |->
       [k \in df.cols \cup {c} |->
          IF k = c THEN s.data[i] ELSE df.rows[i][k]]])

\* The positions of a boolean sequence that hold TRUE, in order.
TruePositions(b) ==
  LET F[i \in 0..Len(b)] ==
        IF i = 0 THEN <<>>
        ELSE IF b[i] THEN Append(F[i - 1], i) ELSE F[i - 1]
  IN F[Len(b)]

\* df[mask] for a boolean Series mask with df's own index.
Filter(df, mask) ==
  LET keep == TruePositions(mask.data)
  IN DataFrame(df.cols, df.iname,
               [j \in 1..Len(keep) |-> df.index[keep[j]]],
               [j \in 1..Len(keep) |-> df.rows[keep[j]]])

\* SeriesDivScalar dividing a second time.
SeriesDivScalarTwice(s, k) ==
  Series(s.name, s.iname, s.index,
         [i \in 1..Len(s.data) |-> RatDiv(RatDiv(s.data[i], k), k)])

\* s / k
SeriesDivScalar(s, k) ==
  Series(s.name, s.iname, s.index, [i \in 1..Len(s.data) |-> RatDiv(s.data[i], k)])

\* SeriesDiv leaving the dividend as it is.
SeriesDivDropped(a, b) == a

\* a / b for a float Series a and an integer Series b with the same index.
SeriesDiv(a, b) ==
  Series(a.name, a.iname, a.index,
         [i \in 1..Len(a.data) |-> RatDiv(a.data[i], b.data[i])])

\* SeriesGt comparing with >=.
SeriesGtAsGe(s, k) ==
  Series(s.name, s.iname, s.index, [i \in 1..Len(s.data) |-> s.data[i] >= k])

\* s > k for an integer Series s
SeriesGt(s, k) ==
  Series(s.name, s.iname, s.index, [i \in 1..Len(s.data) |-> s.data[i] > k])

\* SeriesMul adding instead of multiplying.
SeriesMulAsSum(a, b) ==
  Series(a.name, a.iname, a.index, [i \in 1..Len(a.data) |-> a.data[i] + b.data[i]])

\* a * b for two integer Series with the same index.
SeriesMul(a, b) ==
  Series(a.name, a.iname, a.index, [i \in 1..Len(a.data) |-> a.data[i] * b.data[i]])

----------------------------------------------------------------------------
\* The input data

RawCols == {"date", "customer_id", "transaction_id", "quantity", "unit_price"}

\* One sales line as load_data's query yields it.
RawRow ==
  [date : 0..MaxDate, customer_id : 1..MaxCust, transaction_id : 1..MaxTx,
   quantity : 1..MaxQty, unit_price : 1..MaxPrice]

RawTables == UNION {[1..n -> RawRow] : n \in 1..MaxRows}

\* A DataFrame read from SQL: a RangeIndex over the rows.
FrameOf(rows) ==
  DataFrame(RawCols, "", [i \in 1..Len(rows) |-> i - 1], rows)

----------------------------------------------------------------------------
\* The engine

\* __init__: every attribute is None; bgf and ggf are unfitted models.
NewModel ==
  [df |-> NoneV, sales_amount |-> NoneV, customer_summary |-> NoneV,
   total_transactions |-> NoneV, total_sales_amount |-> NoneV,
   repeat_rate |-> NoneV, churn_rate |-> NoneV,
   average_order_value |-> NoneV, purchase_frequency |-> NoneV,
   profit_margin |-> NoneV, customer_value |-> NoneV, cltv |-> NoneV,
   customer_summary_pr |-> NoneV,
   recency |-> NoneV, T |-> NoneV, frequency |-> NoneV, monetary |-> NoneV,
   cltv_pred |-> NoneV, predicted_purchases |-> NoneV, segment |-> NoneV,
   bgf |-> "unfitted", ggf |-> "unfitted"]

Returned(self, df, ret) == [err |-> "", self |-> self, df |-> df, ret |-> ret]
Raised(e, self, df) == [err |-> e, self |-> self, df |-> df, ret |-> NoneV]

\* calculate_sales_amount without its column checks: pandas raises KeyError on
\* the first column it does not find.
calculate_sales_amountUnchecked(self, df) ==
  IF IsNone(df) THEN Raised("AttributeError", self, df)
  ELSE IF "unit_price" \notin df.cols \/ "quantity" \notin df.cols
    THEN Raised("KeyError", self, df)
  ELSE LET df2 == SetCol(df, "sales_amount",
                         SeriesMul(Col(df, "unit_price"), Col(df, "quantity")))
       IN Returned([self EXCEPT !.sales_amount = Col(df2, "sales_amount")],
                   df2, df2)

\* calculate_sales_amount keeping the table it worked on as the engine's.
calculate_sales_amountStoringTable(self, df) ==
  IF IsNone(df) THEN Raised("AttributeError", self, df)
  ELSE IF "unit_price" \notin df.cols THEN Raised("ValueError", self, df)
  ELSE IF "quantity" \notin df.cols THEN Raised("ValueError", self, df)
  ELSE LET df2 == SetCol(df, "sales_amount",
                         SeriesMul(Col(df, "unit_price"), Col(df, "quantity")))
       IN Returned([self EXCEPT !.sales_amount = Col(df2, "sales_amount"),
                                !.df = df2],
                   df2, df2)

\* calculate_sales_amount on the table df (self.df when the caller gives none):
\* the outcome, with the engine and the table as the call leaves them.
calculate_sales_amount(self, df) ==
  IF IsNone(df) THEN Raised("AttributeError", self, df)
  ELSE IF "unit_price" \notin df.cols THEN Raised("ValueError", self, df)
  ELSE IF "quantity" \notin df.cols THEN Raised("ValueError", self, df)
  ELSE LET df2 == SetCol(df, "sales_amount",
                         SeriesMul(Col(df, "unit_price"), Col(df, "quantity")))
       IN Returned([self EXCEPT !.sales_amount = Col(df2, "sales_amount")],
                   df2, df2)

\* _calculate_recency_T measuring from the reference day after the last purchase.
_calculate_recency_TFromNextDay(InvoiceDate) ==
  (SetMax(Range(InvoiceDate)) + DefaultDays) - SetMin(Range(InvoiceDate))

\* _calculate_recency_T on one customer's dates: last purchase - first purchase.
_calculate_recency_T(InvoiceDate) ==
  SetMax(Range(InvoiceDate)) - SetMin(Range(InvoiceDate))

\* _calculate_recency_today on one customer's dates: df is self.df and date_col
\* is 'date' whatever table and column calculate_cltv_pr was given; days is 1.
_calculate_recency_today(self, InvoiceDate) ==
  LET max_date == SetMax(Range(Col(self.df, "date").data))
      today == max_date + DefaultDays
  IN today - SetMin(Range(InvoiceDate))

\* nunique counting the rows.
nuniqueAsCount(Invoice) == Len(Invoice)

\* nunique leaving the first transaction out.
nuniqueLessFirst(Invoice) == Cardinality(Range(Invoice)) - 1

\* Invoice.nunique(): the number of distinct values of a column of one group.
nunique(Invoice) == Cardinality(Range(Invoice))

\* sum counting the sales lines.
sumAsCount(TotalPrice) == Len(TotalPrice)

\* TotalPrice.sum()
sum(TotalPrice) == SumSeq(TotalPrice)

\* The frame df.groupby(customer_id).agg({...}) builds, with the four column
\* names of _calculate_cltv_pr_columns: one row per customer, sorted by id.
GroupAgg(self, df, sales_name) ==
  LET ids == SortedSeq({df.rows[i].customer_id : i \in 1..Len(df.rows)})
      Group(c) == SelectSeq(df.rows, LAMBDA r : r.customer_id = c)
      Dates(g) == [i \in 1..Len(g) |-> g[i].date]
  IN DataFrame({"recency", "T", "frequency", "monetary"}, "customer_id", ids,
       [j \in 1..Len(ids) |->
          LET g == Group(ids[j])
          IN [recency |-> Rat(_calculate_recency_T(Dates(g))),
              T |-> Rat(_calculate_recency_today(self, Dates(g))),
              frequency |-> nunique([i \in 1..Len(g) |-> g[i].transaction_id]),
              monetary |-> Rat(sum([i \in 1..Len(g) |-> g[i][sales_name]]))]])

\* _calculate_monetary_frequency_filter with its default arguments, as
\* calculate_cltv_pr calls it: the engine afterwards, and the frame that
\* self.customer_summary_pr named on entry as the call leaves it (orig).
_calculate_monetary_frequency_filter(self) ==
  LET P0 == self.customer_summary_pr
      monetary_col == self.monetary
      frequency_col == self.frequency
      recency_col == self.recency
      T_col == self.T
      monetary == SeriesDiv(monetary_col, frequency_col)
      P0m == SetCol(P0, monetary_col.name, monetary)
      P1 == Filter(P0m, SeriesGt(frequency_col, 1))
      frequency == Col(P1, frequency_col.name)
      recency == SeriesDivScalar(recency_col, DaysPerWeek)
      P1r == SetColAligned(P1, recency_col.name, recency)
      T == SeriesDivScalar(T_col, DaysPerWeek)
      P1t == SetColAligned(P1r, T_col.name, T)
  IN [self |-> [self EXCEPT !.monetary = monetary, !.frequency = frequency,
                            !.recency = recency, !.T = T,
                            !.customer_summary_pr = P1t],
      orig |-> P0m]

\* calculate_cltv_pr updating the customer table of an earlier run instead of
\* aggregating the sales again.
calculate_cltv_prIncremental(self, df) ==
  IF IsNone(self.sales_amount) THEN Raised("AttributeError", self, df)
  ELSE IF IsNone(df) THEN Raised("AttributeError", self, df)
  ELSE IF self.sales_amount.name \notin df.cols THEN Raised("ValueError", self, df)
  ELSE IF "date" \notin df.cols THEN Raised("ValueError", self, df)
  ELSE IF "transaction_id" \notin df.cols THEN Raised("ValueError", self, df)
  ELSE IF "customer_id" \notin df.cols THEN Raised("ValueError", self, df)
  ELSE IF Len(df.rows) > 0 /\ IsNone(self.df) THEN Raised("TypeError", self, df)
  ELSE IF Len(df.rows) > 0 /\ "date" \notin self.df.cols
    THEN Raised("KeyError", self, df)
  ELSE LET P0 == IF IsNone(self.customer_summary_pr)
                 THEN GroupAgg(self, df, self.sales_amount.name)
                 ELSE self.customer_summary_pr
           set == [self EXCEPT !.recency = Col(P0, "recency"),
                               !.T = Col(P0, "T"),
                               !.frequency = Col(P0, "frequency"),
                               !.monetary = Col(P0, "monetary"),
                               !.customer_summary_pr = P0]
           out == _calculate_monetary_frequency_filter(set)
       IN Returned(out.self, df, out.orig)

\* calculate_cltv_pr on the table df (self.df when the caller gives none), with
\* the default column names and sales_amount_col = self.sales_amount. The
\* aggregation reads self.df once per customer of df: not at all when df has
\* no rows.
calculate_cltv_pr(self, df) ==
  IF IsNone(self.sales_amount) THEN Raised("AttributeError", self, df)
  ELSE IF IsNone(df) THEN Raised("AttributeError", self, df)
  ELSE IF self.sales_amount.name \notin df.cols THEN Raised("ValueError", self, df)
  ELSE IF "date" \notin df.cols THEN Raised("ValueError", self, df)
  ELSE IF "transaction_id" \notin df.cols THEN Raised("ValueError", self, df)
  ELSE IF "customer_id" \notin df.cols THEN Raised("ValueError", self, df)
  ELSE IF Len(df.rows) > 0 /\ IsNone(self.df) THEN Raised("TypeError", self, df)
  ELSE IF Len(df.rows) > 0 /\ "date" \notin self.df.cols
    THEN Raised("KeyError", self, df)
  ELSE LET P0 == GroupAgg(self, df, self.sales_amount.name)
           set == [self EXCEPT !.recency = Col(P0, "recency"),
                               !.T = Col(P0, "T"),
                               !.frequency = Col(P0, "frequency"),
                               !.monetary = Col(P0, "monetary"),
                               !.customer_summary_pr = P0]
           out == _calculate_monetary_frequency_filter(set)
       IN Returned(out.self, df, out.orig)

----------------------------------------------------------------------------
\* The customer summary and the rates derived from it, with default arguments.
\* A returned number is a rational of kind "float": [kind, val], and a call
\* that warns names the warning's category in warn.

Number(x) == [kind |-> "float", val |-> x]
Outcome(out, warn) ==
  [err |-> out.err, self |-> out.self, df |-> out.df, ret |-> out.ret,
   warn |-> warn]

\* calculate_customer_summary writing each customer's total into a column of
\* the sales table as well.
calculate_customer_summaryInPlace(self) ==
  LET df == self.df
  IN IF IsNone(df) THEN Raised("AttributeError", self, df)
     ELSE IF "customer_id" \notin df.cols THEN Raised("ValueError", self, df)
     ELSE IF "transaction_id" \notin df.cols THEN Raised("ValueError", self, df)
     ELSE IF IsNone(self.sales_amount) THEN Raised("AttributeError", self, df)
     ELSE IF self.sales_amount.name \notin df.cols THEN Raised("ValueError", self, df)
     ELSE LET ids == SortedSeq({df.rows[i].customer_id : i \in 1..Len(df.rows)})
              Group(c) == SelectSeq(df.rows, LAMBDA r : r.customer_id = c)
              Total(c) == sum([i \in 1..Len(Group(c)) |->
                                 Group(c)[i][self.sales_amount.name]])
              S == DataFrame({"total_transactions", "total_sales_amount"},
                     "customer_id", ids,
                     [j \in 1..Len(ids) |->
                        LET g == Group(ids[j])
                        IN [total_transactions |->
                              nunique([i \in 1..Len(g) |-> g[i].transaction_id]),
                            total_sales_amount |-> Total(ids[j])]])
              df2 == SetCol(df, "total_sales_amount",
                       Series("total_sales_amount", df.iname, df.index,
                              [i \in 1..Len(df.rows) |-> Total(df.rows[i].customer_id)]))
          IN Returned([self EXCEPT !.customer_summary = S,
                         !.total_transactions = Col(S, "total_transactions"),
                         !.total_sales_amount = Col(S, "total_sales_amount"),
                         !.df = df2],
                      df2, S)

\* calculate_customer_summary: one row per customer of self.df, sorted by id,
\* with its number of distinct transactions and the sum of its sales_amount.
calculate_customer_summary(self) ==
  LET df == self.df
  IN IF IsNone(df) THEN Raised("AttributeError", self, df)
     ELSE IF "customer_id" \notin df.cols THEN Raised("ValueError", self, df)
     ELSE IF "transaction_id" \notin df.cols THEN Raised("ValueError", self, df)
     ELSE IF IsNone(self.sales_amount) THEN Raised("AttributeError", self, df)
     ELSE IF self.sales_amount.name \notin df.cols THEN Raised("ValueError", self, df)
     ELSE LET ids == SortedSeq({df.rows[i].customer_id : i \in 1..Len(df.rows)})
              Group(c) == SelectSeq(df.rows, LAMBDA r : r.customer_id = c)
              S == DataFrame({"total_transactions", "total_sales_amount"},
                     "customer_id", ids,
                     [j \in 1..Len(ids) |->
                        LET g == Group(ids[j])
                        IN [total_transactions |->
                              nunique([i \in 1..Len(g) |-> g[i].transaction_id]),
                            total_sales_amount |->
                              sum([i \in 1..Len(g) |-> g[i][self.sales_amount.name]])]])
          IN Returned([self EXCEPT !.customer_summary = S,
                         !.total_transactions = Col(S, "total_transactions"),
                         !.total_sales_amount = Col(S, "total_sales_amount")],
                      df, S)

\* calculate_repeat_rate raising its warning as an exception.
calculate_repeat_rateRaising(self) ==
  LET S == self.customer_summary
      total_transactions_col == self.total_transactions
  IN IF IsNone(total_transactions_col)
       THEN Outcome(Raised("AttributeError", self, NoneV), "")
     ELSE IF total_transactions_col.name \notin S.cols
       THEN Outcome(Raised("ValueError", self, NoneV), "")
     ELSE IF Len(S.rows) = 0 THEN Outcome(Raised("ValueError", self, NoneV), "")
     ELSE LET repeat_rate_df == Filter(S, SeriesGt(total_transactions_col, 1))
          IN IF Len(repeat_rate_df.rows) = 0
               THEN Outcome(Raised("Warning", self, NoneV), "")
             ELSE LET repeat_rate == <<Len(repeat_rate_df.rows), Len(S.rows)>>
                  IN Outcome(Returned([self EXCEPT !.repeat_rate = Number(repeat_rate)],
                                      NoneV, Number(repeat_rate)), "")

\* calculate_repeat_rate: the customers with more than one transaction over
\* all the customers of the summary; 0, with a warning, when there is none.
calculate_repeat_rate(self) ==
  LET S == self.customer_summary
      total_transactions_col == self.total_transactions
  IN IF IsNone(total_transactions_col)
       THEN Outcome(Raised("AttributeError", self, NoneV), "")
     ELSE IF total_transactions_col.name \notin S.cols
       THEN Outcome(Raised("ValueError", self, NoneV), "")
     ELSE IF Len(S.rows) = 0 THEN Outcome(Raised("ValueError", self, NoneV), "")
     ELSE LET repeat_rate_df == Filter(S, SeriesGt(total_transactions_col, 1))
          IN IF Len(repeat_rate_df.rows) = 0
               THEN Outcome(Returned([self EXCEPT !.repeat_rate = Number(Rat(0))],
                                     NoneV, Number(Rat(0))), "Warning")
             ELSE LET repeat_rate == <<Len(repeat_rate_df.rows), Len(S.rows)>>
                  IN Outcome(Returned([self EXCEPT !.repeat_rate = Number(repeat_rate)],
                                      NoneV, Number(repeat_rate)), "")

\* 1 - x for a rational x
OneMinus(x) == <<x[2] - x[1], x[2]>>

\* calculate_churn_rate returning the repeat rate itself.
calculate_churn_rateNotComplemented(self) ==
  IF IsNone(self.repeat_rate) THEN Raised("TypeError", self, NoneV)
  ELSE Returned([self EXCEPT !.churn_rate = self.repeat_rate], NoneV,
                self.repeat_rate)

\* calculate_churn_rate taking a repeat rate that was never computed for 0.
calculate_churn_rateDefaulting(self) ==
  LET repeat_rate == IF IsNone(self.repeat_rate) THEN Number(Rat(0))
                     ELSE self.repeat_rate
      churn_rate == Number(OneMinus(repeat_rate.val))
  IN Returned([self EXCEPT !.churn_rate = churn_rate], NoneV, churn_rate)

\* calculate_churn_rate: 1 - self.repeat_rate
calculate_churn_rate(self) ==
  IF IsNone(self.repeat_rate) THEN Raised("TypeError", self, NoneV)
  ELSE LET churn_rate == Number(OneMinus(self.repeat_rate.val))
       IN Returned([self EXCEPT !.churn_rate = churn_rate], NoneV, churn_rate)

\* The default profit_margin_rate, 0.10.
ProfitMarginRate == <<1, 10>>

\* A column c added in place to self.customer_summary from the values data,
\* and the attribute attr set to it; the summary is returned.
WithMetric(self, c, attr, data) ==
  LET S == self.customer_summary
      S2 == SetCol(S, c, Series(c, S.iname, S.index, data))
  IN Returned([[self EXCEPT !.customer_summary = S2] EXCEPT ![attr] = Col(S2, c)],
              NoneV, S2)

\* calculate_average_order_value: total_sales_amount / total_transactions
calculate_average_order_value(self) ==
  LET S == self.customer_summary
      tsa == self.total_sales_amount
      tt == self.total_transactions
  IN IF IsNone(tsa) THEN Raised("AttributeError", self, NoneV)
     ELSE IF tsa.name \notin S.cols THEN Raised("ValueError", self, NoneV)
     ELSE IF IsNone(tt) THEN Raised("AttributeError", self, NoneV)
     ELSE IF tt.name \notin S.cols THEN Raised("ValueError", self, NoneV)
     ELSE WithMetric(self, "average_order_value", "average_order_value",
            [i \in 1..Len(S.rows) |-> RatDiv(Rat(At(tsa, S.index[i])), At(tt, S.index[i]))])

\* calculate_purchase_frequency: total_transactions / number of customers
calculate_purchase_frequency(self) ==
  LET S == self.customer_summary
      tt == self.total_transactions
  IN IF IsNone(tt) THEN Raised("AttributeError", self, NoneV)
     ELSE IF tt.name \notin S.cols THEN Raised("ValueError", self, NoneV)
     ELSE IF Len(S.rows) = 0 THEN Raised("ValueError", self, NoneV)
     ELSE WithMetric(self, "purchase_frequency", "purchase_frequency",
            [i \in 1..Len(S.rows) |-> RatDiv(Rat(At(tt, S.index[i])), Len(S.rows))])

\* calculate_profit_margin: total_sales_amount * profit_margin_rate
calculate_profit_margin(self) ==
  LET S == self.customer_summary
      tsa == self.total_sales_amount
  IN IF IsNone(S) THEN Raised("TypeError", self, NoneV)
     ELSE IF Len(S.rows) = 0 THEN Raised("ValueError", self, NoneV)
     ELSE IF IsNone(tsa) THEN Raised("AttributeError", self, NoneV)
     ELSE IF tsa.name \notin S.cols THEN Raised("ValueError", self, NoneV)
     ELSE WithMetric(self, "profit_margin", "profit_margin",
            [i \in 1..Len(S.rows) |-> RatMul(Rat(At(tsa, S.index[i])), ProfitMarginRate)])

\* calculate_customer_value: average_order_value * purchase_frequency
calculate_customer_value(self) ==
  LET S == self.customer_summary
      aov == self.average_order_value
      pf == self.purchase_frequency
  IN IF IsNone(aov) THEN Raised("AttributeError", self, NoneV)
     ELSE IF aov.name \notin S.cols THEN Raised("ValueError", self, NoneV)
     ELSE IF IsNone(pf) THEN Raised("AttributeError", self, NoneV)
     ELSE IF pf.name \notin S.cols THEN Raised("ValueError", self, NoneV)
     ELSE WithMetric(self, "customer_value", "customer_value",
            [i \in 1..Len(S.rows) |-> RatMul(At(aov, S.index[i]), At(pf, S.index[i]))])

\* calculate_cltv filling the clv column in two steps: the customer value
\* first, then its division by the churn rate in place.
calculate_cltvInSteps(self) ==
  LET S == self.customer_summary
      cv == self.customer_value
      pm == self.profit_margin
  IN IF IsNone(cv) THEN Raised("AttributeError", self, NoneV)
     ELSE IF cv.name \notin S.cols THEN Raised("ValueError", self, NoneV)
     ELSE IF IsNone(pm) THEN Raised("AttributeError", self, NoneV)
     ELSE IF pm.name \notin S.cols THEN Raised("ValueError", self, NoneV)
     ELSE IF IsNone(self.churn_rate)
       THEN Raised("TypeError",
                   [self EXCEPT !.customer_summary =
                      SetCol(S, "clv", Series("clv", S.iname, S.index,
                             [i \in 1..Len(S.rows) |-> At(cv, S.index[i])]))],
                   NoneV)
     ELSE WithMetric(self, "clv", "cltv",
            [i \in 1..Len(S.rows) |->
               RatMul(RatDivRat(At(cv, S.index[i]), self.churn_rate.val),
                      At(pm, S.index[i]))])

\* calculate_cltv: (customer_value / churn_rate) * profit_margin, stored in the
\* column clv and in self.cltv; a float division by a churn rate of 0 raises
\* nothing.
calculate_cltv(self) ==
  LET S == self.customer_summary
      cv == self.customer_value
      pm == self.profit_margin
  IN IF IsNone(cv) THEN Raised("AttributeError", self, NoneV)
     ELSE IF cv.name \notin S.cols THEN Raised("ValueError", self, NoneV)
     ELSE IF IsNone(pm) THEN Raised("AttributeError", self, NoneV)
     ELSE IF pm.name \notin S.cols THEN Raised("ValueError", self, NoneV)
     ELSE IF IsNone(self.churn_rate) THEN Raised("TypeError", self, NoneV)
     ELSE WithMetric(self, "clv", "cltv",
            [i \in 1..Len(S.rows) |->
               RatMul(RatDivRat(At(cv, S.index[i]), self.churn_rate.val),
                      At(pm, S.index[i]))])

----------------------------------------------------------------------------
\* The stages after the RFM Builder. BetaGeoFitter and GammaGammaFitter are the
\* lifetimes library's: a fit either converges or raises, and the numbers a
\* fitted model predicts are finite floats this model does not compute (Float
\* stands for one), except the CLV, which the caller of calculate_cltv_prediction
\* below draws from 1..MaxClv for each customer.

Float == Rat(1)

\* The customers a frame holds: its customer_id column, or else its index.
FrameCustomers(f) ==
  IF "customer_id" \in f.cols
  THEN {f.rows[i].customer_id : i \in 1..Len(f.rows)}
  ELSE IF f.iname = "customer_id" THEN Range(f.index) ELSE {}

\* lifetimes' _check_inputs(frequency, recency, T) of BetaGeoFitter.fit.
BgfInputsOk(frequency, recency, T) ==
  /\ Len(frequency.data) > 0
  /\ \A i \in 1..Len(frequency.data) :
       /\ ~RatLt(T.data[i], recency.data[i])
       /\ ~RatLt(recency.data[i], Rat(0))
       /\ frequency.data[i] = 0 => RatEq(recency.data[i], Rat(0))

\* fit_bgf_model with its default arguments; converges: whether the optimizer does.
fit_bgf_model(self, converges) ==
  LET P == self.customer_summary_pr
  IN IF IsNone(P) THEN Raised("TypeError", self, NoneV)
     ELSE IF ~({"frequency", "recency", "T"} \subseteq P.cols)
       THEN Raised("KeyError", self, NoneV)
     ELSE IF ~BgfInputsOk(Col(P, "frequency"), Col(P, "recency"), Col(P, "T"))
       THEN Raised("ValueError", self, NoneV)
     ELSE IF ~converges THEN Raised("ConvergenceError", self, NoneV)
     ELSE Returned([self EXCEPT !.bgf = "fitted"], NoneV, NoneV)

\* lifetimes' _check_inputs(frequency, monetary_value=...) of GammaGammaFitter.fit.
GgfInputsOk(frequency, monetary) ==
  \A i \in 1..Len(monetary.data) : RatLt(Rat(0), monetary.data[i])

\* fit_ggf_model on the table customer_summary_pr (self.customer_summary_pr
\* when the caller gives none), with the default column names.
fit_ggf_model(self, customer_summary_pr, converges) ==
  LET P == IF IsNone(customer_summary_pr) THEN self.customer_summary_pr
           ELSE customer_summary_pr
  IN IF IsNone(P) THEN Raised("TypeError", self, NoneV)
     ELSE IF ~({"frequency", "monetary"} \subseteq P.cols)
       THEN Raised("KeyError", self, NoneV)
     ELSE IF ~GgfInputsOk(Col(P, "frequency"), Col(P, "monetary"))
       THEN Raised("ValueError", self, NoneV)
     ELSE IF ~converges THEN Raised("ConvergenceError", self, NoneV)
     ELSE Returned([self EXCEPT !.ggf = "fitted"], NoneV, NoneV)

\* What a fitted model returns for the Series it is given: one float per label
\* of the first, NaN where another Series has no value at that label.
Predicted(name, first, others) ==
  Series(name, first.iname, first.index,
    [i \in 1..Len(first.index) |->
       IF \E j \in 1..Len(others) : IsNaN(At(others[j], first.index[i]))
       THEN NaN ELSE Float])

\* sort_values leaving the rows in the order it finds them.
SortValuesUnsorted(df, c, ascending) == df

\* df.sort_values(by=c): by the float column c, NaN last, ties in their order
\* (the index follows its row).
SortValues(df, c, ascending) ==
  LET n == Len(df.rows)
      Before(i, j) ==
        LET x == df.rows[i][c]
            y == df.rows[j][c]
        IN IF IsNaN(x) THEN FALSE
           ELSE IF IsNaN(y) THEN TRUE
           ELSE IF ascending THEN RatLt(x, y) ELSE RatLt(y, x)
      Rank(i) ==
        Cardinality({j \in 1..n :
                       \/ Before(j, i)
                       \/ ~Before(i, j) /\ j < i})
      Order == [k \in 1..n |-> CHOOSE i \in 1..n : Rank(i) = k - 1]
  IN DataFrame(df.cols, df.iname,
               [k \in 1..n |-> df.index[Order[k]]],
               [k \in 1..n |-> df.rows[Order[k]]])

\* predict_purchases with its default arguments (t = 1).
predict_purchases(self) ==
  LET P == self.customer_summary_pr
  IN IF IsNone(P) THEN Raised("AttributeError", self, NoneV)
     ELSE IF IsNone(self.frequency) \/ IsNone(self.recency) \/ IsNone(self.T)
       THEN Raised("AttributeError", self, NoneV)
     ELSE IF self.frequency.name \notin P.cols
             \/ self.recency.name \notin P.cols \/ self.T.name \notin P.cols
       THEN Raised("ValueError", self, NoneV)
     ELSE IF self.bgf # "fitted" THEN Raised("ValueError", self, NoneV)
     ELSE LET pred == Predicted("predicted_purchases", self.frequency,
                                <<self.recency, self.T>>)
              P2 == SetColAligned(P, "predicted_purchases", pred)
          IN Returned([self EXCEPT !.customer_summary_pr = P2,
                                   !.predicted_purchases = Col(P2, "predicted_purchases")],
                      NoneV, SortValues(P2, "predicted_purchases", TRUE))

\* calculate_expected_average_profit with its default arguments.
calculate_expected_average_profit(self) ==
  LET P == self.customer_summary_pr
  IN IF IsNone(P) THEN Raised("TypeError", self, NoneV)
     ELSE IF ~({"frequency", "monetary"} \subseteq P.cols)
       THEN Raised("KeyError", self, NoneV)
     ELSE IF self.ggf # "fitted" THEN Raised("ValueError", self, NoneV)
     ELSE LET eap == Predicted("expected_average_profit", Col(P, "frequency"),
                               <<Col(P, "monetary")>>)
              P2 == SetColAligned(P, "expected_average_profit", eap)
          IN Returned([self EXCEPT !.customer_summary_pr = P2], NoneV,
                      SortValues(P2, "expected_average_profit", FALSE))

\* calculate_cltv_prediction giving one row per label of self.recency.
calculate_cltv_predictionPerRecency(self, clv) ==
  IF IsNone(self.frequency) \/ IsNone(self.recency) \/ IsNone(self.T)
     \/ IsNone(self.monetary)
    THEN Raised("AttributeError", self, NoneV)
  ELSE IF self.ggf # "fitted" \/ self.bgf # "fitted"
    THEN Raised("ValueError", self, NoneV)
  ELSE LET r == self.recency
           pred == DataFrame({r.iname, "clv"}, "",
                     [i \in 1..Len(r.index) |-> i - 1],
                     [i \in 1..Len(r.index) |->
                        [k \in {r.iname, "clv"} |->
                           IF k = "clv"
                           THEN IF i \in DOMAIN clv THEN Rat(clv[i]) ELSE NaN
                           ELSE r.index[i]]])
       IN Returned([self EXCEPT !.cltv_pred = pred], NoneV, pred)

\* calculate_cltv_prediction with its default arguments; clv[i] is the value the
\* fitted models give the i-th customer of self.frequency. The result has one
\* row per label of self.frequency, NaN where recency, T or monetary has none,
\* and reset_index() makes the customer_id index a column.
calculate_cltv_prediction(self, clv) ==
  IF IsNone(self.frequency) \/ IsNone(self.recency) \/ IsNone(self.T)
     \/ IsNone(self.monetary)
    THEN Raised("AttributeError", self, NoneV)
  ELSE IF self.ggf # "fitted" \/ self.bgf # "fitted"
    THEN Raised("ValueError", self, NoneV)
  ELSE LET f == self.frequency
           others == <<self.recency, self.T, self.monetary>>
           pred == DataFrame({f.iname, "clv"}, "",
                     [i \in 1..Len(f.index) |-> i - 1],
                     [i \in 1..Len(f.index) |->
                        [k \in {f.iname, "clv"} |->
                           IF k = "clv"
                           THEN IF \E j \in 1..Len(others) :
                                     IsNaN(At(others[j], f.index[i]))
                                THEN NaN ELSE Rat(clv[i])
                           ELSE f.index[i]]])
       IN Returned([self EXCEPT !.cltv_pred = pred], NoneV, pred)

\* The name a non-key column of one side of a merge gets: the suffix when the
\* other side has a column of the same name.
Suffixed(c, otherCols, suffix) ==
  IF c \in otherCols THEN c \o suffix ELSE c

\* left.merge(right, on="customer_id", how="left") for a right frame with a
\* customer_id column whose values are distinct: the left rows in their order,
\* each with the right row of its customer, NaN where there is none; the result
\* has a RangeIndex and the key as a column.
MergeLeft(left, right) ==
  LET key == "customer_id"
      lcols == left.cols \ {key}
      rcols == right.cols \ {key}
      cols == {key} \cup {Suffixed(c, rcols, "_x") : c \in lcols}
                    \cup {Suffixed(c, lcols, "_y") : c \in rcols}
      LKey(i) == IF key \in left.cols THEN left.rows[i][key] ELSE left.index[i]
      RPos(k) ==
        IF \E j \in 1..Len(right.rows) : right.rows[j][key] = k
        THEN CHOOSE j \in 1..Len(right.rows) : right.rows[j][key] = k
        ELSE 0
  IN DataFrame(cols, "", [i \in 1..Len(left.rows) |-> i - 1],
       [i \in 1..Len(left.rows) |->
          [c \in cols |->
             IF c = key THEN LKey(i)
             ELSE IF \E l \in lcols : Suffixed(l, rcols, "_x") = c
               THEN left.rows[i][CHOOSE l \in lcols : Suffixed(l, rcols, "_x") = c]
             ELSE LET r == CHOOSE r \in rcols : Suffixed(r, lcols, "_y") = c
                  IN IF RPos(LKey(i)) = 0 THEN NaN
                     ELSE right.rows[RPos(LKey(i))][r]]])

\* merge_cltv_predictions with its default arguments.
merge_cltv_predictions(self) ==
  LET P == self.customer_summary_pr
  IN IF IsNone(self.df) THEN Raised("AttributeError", self, NoneV)
     ELSE IF "customer_id" \notin self.df.cols THEN Raised("ValueError", self, NoneV)
     ELSE IF IsNone(P) THEN Raised("AttributeError", self, NoneV)
     ELSE IF IsNone(self.cltv_pred) THEN Raised("TypeError", self, NoneV)
     ELSE IF "customer_id" \notin P.cols /\ P.iname # "customer_id"
       THEN Raised("KeyError", self, NoneV)
     ELSE LET merged == MergeLeft(P, self.cltv_pred)
          IN Returned([self EXCEPT !.customer_summary_pr = merged], NoneV, merged)

\* The default labels, the best first.
SegmentLabelsBestFirst == <<"A", "B", "C", "D">>

\* The segment count and labels create_segments uses by default.
SegmentLabels == <<"D", "C", "B", "A">>
NumSegments == 4

\* q times the k-th of the q + 1 bin edges pd.qcut(x, q) computes for the
\* ascending values v: the k/q quantile, interpolated linearly between the two
\* values around position (n - 1) * k / q.
ScaledEdge(v, q, k) ==
  LET h == (Len(v) - 1) * k
      lo == (h \div q) + 1
      frac == h % q
  IN IF frac = 0 THEN q * v[lo] ELSE q * v[lo] + frac * (v[lo + 1] - v[lo])

\* pd.qcut(x, q, labels) over a float column x (values n/1 or NaN): it raises
\* (ok is FALSE) when there is no value or two bin edges are equal
\* (duplicates='raise'), else gives the label of each value's bin, bins being
\* (edge, edge] with the lowest edge included; a NaN has no label.
qcut(x, q, labels) ==
  LET vals == {x[i][1] : i \in {j \in 1..Len(x) : ~IsNaN(x[j])}}
      pos == {i \in 1..Len(x) : ~IsNaN(x[i])}
      \* the non-NaN values in ascending order, with their multiplicity
      Count(w) == Cardinality({i \in pos : x[i][1] = w})
      Asc == LET sv == SortedSeq(vals)
                 F[k \in 0..Len(sv)] ==
                   IF k = 0 THEN <<>>
                   ELSE F[k - 1] \o [j \in 1..Count(sv[k]) |-> sv[k]]
             IN F[Len(sv)]
      Edge(k) == ScaledEdge(Asc, q, k)
      Bin(w) ==
        IF q * w = Edge(0) THEN 1
        ELSE Cardinality({k \in 0..q : Edge(k) < q * w})
  IN IF pos = {} \/ Len(labels) # q THEN [ok |-> FALSE, labels |-> <<>>]
     ELSE IF \E k \in 0..(q - 1) : Edge(k) = Edge(k + 1)
       THEN [ok |-> FALSE, labels |-> <<>>]
     ELSE [ok |-> TRUE,
           labels |-> [i \in 1..Len(x) |->
                         IF IsNaN(x[i]) THEN "NaN" ELSE labels[Bin(x[i][1])]]]

\* create_segments on the table customer_summary_pr (self.customer_summary_pr
\* when the caller gives none) with num_segments and labels, and the default
\* column names: the segment column is added to that table in place (df is the
\* table as the call leaves it) and a copy sorted by clv is returned.
create_segments(self, customer_summary_pr, num_segments, labels) ==
  LET P == IF IsNone(customer_summary_pr) THEN self.customer_summary_pr
           ELSE customer_summary_pr
  IN IF IsNone(P) THEN Raised("TypeError", self, P)
     ELSE IF "clv" \notin P.cols THEN Raised("KeyError", self, P)
     ELSE LET seg == qcut(Col(P, "clv").data, num_segments, labels)
          IN IF ~seg.ok THEN Raised("ValueError", self, P)
             ELSE LET P2 == SetCol(P, "segment",
                                   Series("segment", P.iname, P.index, seg.labels))
                      self2 == IF IsNone(customer_summary_pr)
                               THEN [self EXCEPT !.customer_summary_pr = P2]
                               ELSE self
                  IN Returned([self2 EXCEPT !.segment = Col(P2, "segment")],
                              P2, SortValues(P2, "clv", FALSE))

----------------------------------------------------------------------------
\* The calls

NoCall == [op |-> "", arg |-> "", err |-> "", ret |-> NoneV]

Init ==
  /\ db \in RawTables
  /\ udf = FrameOf(db)
  /\ m = NewModel
  /\ loads = 0
  /\ merges = 0
  /\ call = NoCall

\* load_data(query): the default query yields every row; a query with a
\* WHERE d.date <= cutoff clause yields the rows up to the cutoff.
LoadData(cutoff) ==
  LET rows == SelectSeq(db, LAMBDA r : r.date <= cutoff)
  IN /\ loads < MaxLoads
     /\ rows # <<>>
     /\ loads' = loads + 1
     /\ m' = [m EXCEPT !.df = FrameOf(rows)]
     /\ call' = [op |-> "load_data", arg |-> "", err |-> "", ret |-> FrameOf(rows)]
     /\ UNCHANGED <<db, udf, merges>>

\* The table a call works on: self.df by default, or the caller's own.
ArgTable(arg) == IF arg = "udf" THEN udf ELSE m.df

\* m.calculate_sales_amount() or m.calculate_sales_amount(df=udf)
CalculateSalesAmount(arg) ==
  LET out == calculate_sales_amount(m, ArgTable(arg))
  IN /\ m' = IF arg = "udf" THEN out.self ELSE [out.self EXCEPT !.df = out.df]
     /\ udf' = IF arg = "udf" THEN out.df ELSE udf
     /\ call' = [op |-> "calculate_sales_amount", arg |-> arg,
                 err |-> out.err, ret |-> out.ret]
     /\ UNCHANGED <<db, loads, merges>>

\* m.calculate_cltv_pr() or m.calculate_cltv_pr(df=udf)
CalculateCltvPr(arg) ==
  LET out == calculate_cltv_pr(m, ArgTable(arg))
  IN /\ m' = out.self
     /\ call' = [op |-> "calculate_cltv_pr", arg |-> arg,
                 err |-> out.err, ret |-> out.ret]
     /\ UNCHANGED <<db, udf, loads, merges>>

\* A call with default arguments of a stage after the RFM Builder: out is
\* its outcome.
StageCall(op, out) ==
  /\ m' = out.self
  /\ call' = [op |-> op, arg |-> "self", err |-> out.err, ret |-> out.ret]
  /\ UNCHANGED <<db, udf, loads, merges>>

FitBgfModel == \E converges \in BOOLEAN :
  StageCall("fit_bgf_model", fit_bgf_model(m, converges))

FitGgfModel == \E converges \in BOOLEAN :
  StageCall("fit_ggf_model", fit_ggf_model(m, NoneV, converges))

PredictPurchases == StageCall("predict_purchases", predict_purchases(m))

CalculateExpectedAverageProfit ==
  StageCall("calculate_expected_average_profit",
            calculate_expected_average_profit(m))

\* The number of customers the CLV Projector is given.
Population == IF IsNone(m.frequency) THEN 0 ELSE Len(m.frequency.index)

CalculateCltvPrediction == \E clv \in [1..Population -> 1..MaxClv] :
  StageCall("calculate_cltv_prediction", calculate_cltv_prediction(m, clv))

MergeCltvPredictions ==
  LET out == merge_cltv_predictions(m)
  IN /\ merges < MaxMerges
     /\ m' = out.self
     /\ merges' = IF out.err = "" THEN merges + 1 ELSE merges
     /\ call' = [op |-> "merge_cltv_predictions", arg |-> "self",
                 err |-> out.err, ret |-> out.ret]
     /\ UNCHANGED <<db, udf, loads>>

CreateSegments ==
  StageCall("create_segments", create_segments(m, NoneV, NumSegments, SegmentLabels))

\* The Aggregator and the RFM Builder, on the engine's table or the caller's.
Next ==
  \/ \E cutoff \in 0..MaxDate : LoadData(cutoff)
  \/ \E arg \in {"self", "udf"} : CalculateSalesAmount(arg)
  \/ \E arg \in {"self", "udf"} : CalculateCltvPr(arg)

Spec == Init /\ [][Next]_vars

----------------------------------------------------------------------------
\* The Segmenter called directly on a table of the caller's with a clv column,
\* for a requested number of segments.

\* A table of n customers with their CLV.
ClvTable(clv) ==
  DataFrame({"customer_id", "clv"}, "", [i \in 1..Len(clv) |-> i - 1],
            [i \in 1..Len(clv) |-> [customer_id |-> i, clv |-> Rat(clv[i])]])

ClvTables ==
  {ClvTable(clv) : clv \in UNION {[1..n -> 1..MaxSegClv] : n \in 1..MaxSegCust}}

SegmentInit ==
  /\ db = <<>>
  /\ udf \in ClvTables
  /\ m = NewModel
  /\ loads = 0
  /\ merges = 0
  /\ call = NoCall

\* The labels a caller gives for q segments: the default ones for the default
\* count, their first q for a smaller one.
LabelsFor(q) == [k \in 1..q |-> SegmentLabels[k]]

\* m.create_segments(customer_summary_pr=udf, num_segments=q, labels=LabelsFor(q))
CreateSegmentsOn(q) ==
  LET out == create_segments(m, udf, q, LabelsFor(q))
  IN /\ m' = out.self
     /\ udf' = out.df
     /\ call' = [op |-> "create_segments", arg |-> "udf", err |-> out.err,
                 ret |-> out.ret, num_segments |-> q]
     /\ UNCHANGED <<db, loads, merges>>

SegmentNext == \E q \in 2..NumSegments : CreateSegmentsOn(q)

SegmentSpec == SegmentInit /\ [][SegmentNext]_vars

----------------------------------------------------------------------------
\* The Aggregator and the RFM Builder on tables that may have no rows or lack
\* a column.

\* The frame of a query that leaves the columns drop out of its SELECT list.
Without(f, drop) ==
  DataFrame(f.cols \ drop, f.iname, f.index,
            [i \in 1..Len(f.rows) |-> [c \in f.cols \ drop |-> f.rows[i][c]]])

\* The columns a query may leave out: none, or one of them.
Drops == {{}} \cup {{c} : c \in RawCols}

InputTables == UNION {[1..n -> RawRow] : n \in 0..InputRows}

InputInit ==
  /\ db \in InputTables
  /\ \E drop \in Drops : udf = Without(FrameOf(db), drop)
  /\ m = NewModel
  /\ loads = 0
  /\ merges = 0
  /\ call = NoCall

\* load_data(query) with a query that selects every row and leaves drop out.
LoadQuery(drop) ==
  /\ loads < MaxLoads
  /\ loads' = loads + 1
  /\ m' = [m EXCEPT !.df = Without(FrameOf(db), drop)]
  /\ call' = [op |-> "load_data", arg |-> "", err |-> "",
              ret |-> Without(FrameOf(db), drop)]
  /\ UNCHANGED <<db, udf, merges>>

InputNext ==
  \/ \E drop \in Drops : LoadQuery(drop)
  \/ \E arg \in {"self", "udf"} : CalculateSalesAmount(arg)
  \/ \E arg \in {"self", "udf"} : CalculateCltvPr(arg)

InputSpec == InputInit /\ [][InputNext]_vars

----------------------------------------------------------------------------
\* The whole pipeline with default arguments, its stages called in any order,
\* on tables in which each customer has one of a few purchase histories.

\* A purchase history: <<number of transactions, days from first to last>>.
Shapes == {<<1, 0>>, <<3, 30>>, <<10, 300>>}

\* The sales lines of customer c with history shape: its k-th transaction falls
\* on day (k - 1) * span / (n - 1); the first transaction has two lines, the
\* others one.
History(c, shape) ==
  LET n == shape[1]
      span == shape[2]
      Day(k) == IF n = 1 THEN 0 ELSE ((k - 1) * span) \div (n - 1)
      Line(k, l) == [date |-> Day(k), customer_id |-> c,
                     transaction_id |-> 100 * c + k,
                     quantity |-> l, unit_price |-> k]
      F[k \in 0..n] ==
        IF k = 0 THEN <<>>
        ELSE F[k - 1] \o [l \in 1..(IF k = 1 THEN 2 ELSE 1) |-> Line(k, l)]
  IN F[n]

PipeTable(shapes) ==
  LET F[c \in 0..PipeCust] ==
        IF c = 0 THEN <<>> ELSE F[c - 1] \o History(c, shapes[c])
  IN F[PipeCust]

PipeTables == {PipeTable(shapes) : shapes \in [1..PipeCust -> Shapes]}

PipelineInit ==
  /\ db \in PipeTables
  /\ udf = FrameOf(db)
  /\ m = NewModel
  /\ loads = 0
  /\ merges = 0
  /\ call = NoCall

LastDay == SetMax({db[i].date : i \in 1..Len(db)})

PipelineNext ==
  \/ LoadData(LastDay)
  \/ CalculateSalesAmount("self")
  \/ CalculateCltvPr("self")
  \/ FitBgfModel
  \/ PredictPurchases
  \/ FitGgfModel
  \/ CalculateExpectedAverageProfit
  \/ CalculateCltvPrediction
  \/ MergeCltvPredictions
  \/ CreateSegments

PipelineSpec == PipelineInit /\ [][PipelineNext]_vars

----------------------------------------------------------------------------
\* The monetary-model fit called directly, on the engine's stored table or on
\* the table the RFM Builder has just returned to the caller.

\* The table of m.fit_ggf_model() ("self") or of
\* m.fit_ggf_model(customer_summary_pr=m.calculate_cltv_pr()) ("ret").
FitTable(arg) == IF arg = "ret" THEN call.ret ELSE m.customer_summary_pr

FitGgfModelOn(arg) == \E converges \in BOOLEAN :
  LET out == fit_ggf_model(m, IF arg = "ret" THEN call.ret ELSE NoneV, converges)
  IN /\ arg = "ret" => (call.op = "calculate_cltv_pr" /\ call.err = "")
     /\ m' = out.self
     /\ call' = [op |-> "fit_ggf_model", arg |-> arg, err |-> out.err,
                 ret |-> out.ret]
     /\ UNCHANGED <<db, udf, loads, merges>>

DirectFitNext ==
  \/ LoadData(LastDay)
  \/ CalculateSalesAmount("self")
  \/ CalculateCltvPr("self")
  \/ \E arg \in {"self", "ret"} : FitGgfModelOn(arg)

DirectFitSpec == PipelineInit /\ [][DirectFitNext]_vars

----------------------------------------------------------------------------
\* The customer summary, its metrics and the simple CLV.

CalculateCustomerSummary ==
  StageCall("calculate_customer_summary", calculate_customer_summary(m))

CalculateRepeatRate ==
  LET out == calculate_repeat_rate(m)
  IN /\ m' = out.self
     /\ call' = [op |-> "calculate_repeat_rate", arg |-> "self", err |-> out.err,
                 ret |-> out.ret, warn |-> out.warn]
     /\ UNCHANGED <<db, udf, loads, merges>>

CalculateChurnRate == StageCall("calculate_churn_rate", calculate_churn_rate(m))

CalculateAverageOrderValue ==
  StageCall("calculate_average_order_value", calculate_average_order_value(m))

CalculatePurchaseFrequency ==
  StageCall("calculate_purchase_frequency", calculate_purchase_frequency(m))

CalculateProfitMargin ==
  StageCall("calculate_profit_margin", calculate_profit_margin(m))

CalculateCustomerValue ==
  StageCall("calculate_customer_value", calculate_customer_value(m))

CalculateCltv == StageCall("calculate_cltv", calculate_cltv(m))

SummaryNext ==
  \/ LoadData(LastDay)
  \/ CalculateSalesAmount("self")
  \/ CalculateCustomerSummary
  \/ CalculateRepeatRate
  \/ CalculateChurnRate
  \/ CalculateAverageOrderValue
  \/ CalculatePurchaseFrequency
  \/ CalculateProfitMargin
  \/ CalculateCustomerValue
  \/ CalculateCltv

SummarySpec == PipelineInit /\ [][SummaryNext]_vars

----------------------------------------------------------------------------
\* Every stage of the engine, called with default arguments in any order, on
\* the sales of two customers: none, one or both of them with several
\* transactions.

EngineShapes == {<<<<1, 0>>, <<1, 0>>>>, <<<<1, 0>>, <<3, 30>>>>,
                 <<<<3, 30>>, <<3, 30>>>>}

EngineTables == {History(1, s[1]) \o History(2, s[2]) : s \in EngineShapes}

\* The CLV Projector, the library giving the customers different values.
CalculateCltvPredictionDistinct ==
  StageCall("calculate_cltv_prediction",
            calculate_cltv_prediction(m, [i \in 1..Population |-> i]))

EngineInit ==
  /\ db \in EngineTables
  /\ udf = FrameOf(db)
  /\ m = NewModel
  /\ loads = 0
  /\ merges = 0
  /\ call = NoCall

EngineNext ==
  \/ LoadData(LastDay)
  \/ CalculateSalesAmount("self")
  \/ CalculateCustomerSummary
  \/ CalculateAverageOrderValue
  \/ CalculatePurchaseFrequency
  \/ CalculateRepeatRate
  \/ CalculateChurnRate
  \/ CalculateProfitMargin
  \/ CalculateCustomerValue
  \/ CalculateCltv
  \/ CalculateCltvPr("self")
  \/ FitBgfModel
  \/ PredictPurchases
  \/ FitGgfModel
  \/ CalculateExpectedAverageProfit
  \/ CalculateCltvPredictionDistinct
  \/ MergeCltvPredictions
  \/ CreateSegments

EngineSpec == EngineInit /\ [][EngineNext]_vars

----------------------------------------------------------------------------
\* What the claims speak of

\* The last call was op and returned.
Ok(op) == call.op = op /\ call.err = ""

\* The table the last call worked on.
Given == ArgTable(call.arg)

AggregatorRan == Ok("calculate_sales_amount")
BuilderRan == Ok("calculate_cltv_pr")

\* The CustomerRFM table the engine stores.
Stored == m.customer_summary_pr

CustomersOf(t) == {t.rows[i].customer_id : i \in 1..Len(t.rows)}
RowsOf(t, c) == SelectSeq(t.rows, LAMBDA r : r.customer_id = c)
TxCount(t, c) == Cardinality({RowsOf(t, c)[i].transaction_id : i \in 1..Len(RowsOf(t, c))})
DatesOf(t, c) == {RowsOf(t, c)[i].date : i \in 1..Len(RowsOf(t, c))}
FirstDate(t, c) == SetMin(DatesOf(t, c))
LastDate(t, c) == SetMax(DatesOf(t, c))
MaxDateOf(t) == SetMax({t.rows[i].date : i \in 1..Len(t.rows)})
TotalSales(t, c) == SumSeq([i \in 1..Len(RowsOf(t, c)) |-> RowsOf(t, c)[i].sales_amount])

\* The row of customer c in a frame indexed by customer_id.
RowAt(f, c) == f.rows[Pos(f.index, c)]
Has(f, c) == Pos(f.index, c) # 0

----------------------------------------------------------------------------
\* A table that lacks column c; a table of zero rows.
Lacks(t, c) == ~IsNone(t) /\ c \notin t.cols
Empty(t) == ~IsNone(t) /\ Len(t.rows) = 0

\* C1: after the Aggregator runs on a table with unit_price and quantity, every
\* row's sales_amount is its unit_price times its quantity, and the table has
\* as many rows as before the call.
C1_SalesAmountIsProduct ==
  [][(call'.op = "calculate_sales_amount" /\ call'.err = "") =>
       /\ Len(call'.ret.rows) = Len(ArgTable(call'.arg).rows)
       /\ \A i \in 1..Len(call'.ret.rows) :
            call'.ret.rows[i].sales_amount
              = call'.ret.rows[i].unit_price * call'.ret.rows[i].quantity
       /\ (IF call'.arg = "udf" THEN udf' ELSE m'.df) = call'.ret]_vars

C1_Witness ==
  /\ AggregatorRan
  /\ Len(Given.rows) = 2
  /\ \E i \in 1..Len(Given.rows) :
       /\ Given.rows[i].unit_price = 2
       /\ Given.rows[i].quantity = 2
       /\ Given.rows[i].sales_amount = 4

\* C2: after the RFM Builder completes, every customer of the stored
\* CustomerRFM table has frequency > 1.
C2_StoredFrequencyAboveOne ==
  BuilderRan => \A i \in 1..Len(Stored.rows) : Stored.rows[i].frequency > 1

C2_Witness ==
  /\ BuilderRan
  /\ Len(Stored.rows) >= 1

\* C3: for every customer of every table the RFM Builder is run on, the
\* computed recency is at most the computed T.
C3_RecencyAtMostT ==
  BuilderRan =>
    /\ \A i \in 1..Len(call.ret.rows) :
         RatLe(call.ret.rows[i].recency, call.ret.rows[i].T)
    /\ \A i \in 1..Len(Stored.rows) :
         RatLe(Stored.rows[i].recency, Stored.rows[i].T)

\* The stages after the RFM Builder that give a table.
TableStages ==
  {"predict_purchases", "calculate_expected_average_profit",
   "calculate_cltv_prediction", "merge_cltv_predictions", "create_segments"}

\* C4: along the pipeline, the customers of the table each stage after the RFM
\* Builder returns and stores are among those of the table the stage before
\* left (for the merge, also among those of the CLV Projector's table), and
\* each of them has more than one transaction in the engine's data: no customer
\* with frequency <= 1 is in the CLV Projector's table or in the merged or
\* segmented result.
C4_CustomerSetsShrink ==
  [][(call'.op \in TableStages /\ call'.err = "") =>
       /\ FrameCustomers(call'.ret) \subseteq FrameCustomers(m.customer_summary_pr)
       /\ FrameCustomers(m'.customer_summary_pr)
            \subseteq FrameCustomers(m.customer_summary_pr)
       /\ call'.op = "merge_cltv_predictions" =>
            FrameCustomers(call'.ret) \subseteq FrameCustomers(m.cltv_pred)
       /\ \A c \in FrameCustomers(call'.ret) \cup FrameCustomers(m'.customer_summary_pr) :
            TxCount(m'.df, c) > 1
       /\ ~IsNone(m'.cltv_pred) =>
            \A c \in FrameCustomers(m'.cltv_pred) : TxCount(m'.df, c) > 1]_vars

C4_Witness ==
  /\ Ok("create_segments")
  /\ "segment" \in call.ret.cols
  /\ "clv" \in call.ret.cols
  /\ Cardinality(FrameCustomers(call.ret)) = 2
  /\ \E c \in CustomersOf(m.df) :
       /\ TxCount(m.df, c) = 1
       /\ c \notin FrameCustomers(call.ret)
       /\ c \notin FrameCustomers(m.cltv_pred)

\* C5: the retained customers are exactly those whose number of distinct
\* transaction_ids over all their rows exceeds 1, and the frequency of each is
\* that number.
C5_FilterOnFullHistory ==
  BuilderRan =>
    /\ Range(Stored.index) = {c \in CustomersOf(Given) : TxCount(Given, c) > 1}
    /\ Len(Stored.index) = Cardinality(Range(Stored.index))
    /\ \A c \in Range(Stored.index) : RowAt(Stored, c).frequency = TxCount(Given, c)
    /\ Range(m.frequency.index) = Range(Stored.index)
    /\ \A c \in Range(Stored.index) :
         m.frequency.data[Pos(m.frequency.index, c)] = TxCount(Given, c)

C5_Witness ==
  /\ BuilderRan
  /\ \E c \in CustomersOf(Given) :
       /\ TxCount(Given, c) = 2
       /\ Has(Stored, c)
       /\ RowAt(Stored, c).frequency = 2

\* The input of the scenario: customers a, b and c only, a with 1 transaction,
\* b with 3 spanning 30 days, c with 10 spanning 300 days.
Scenario(t, a, b, c) ==
  /\ CustomersOf(t) = {a, b, c}
  /\ TxCount(t, a) = 1
  /\ TxCount(t, b) = 3
  /\ LastDate(t, b) - FirstDate(t, b) = 30
  /\ TxCount(t, c) = 10
  /\ LastDate(t, c) - FirstDate(t, c) = 300

\* C6 as claimed: on the scenario's input the RFM Builder retains exactly B and
\* C, C's frequency is 9 and exceeds B's.
C6_FrequencyExcludesFirst ==
  BuilderRan =>
    \A a \in CustomersOf(Given) : \A b \in CustomersOf(Given) :
      \A c \in CustomersOf(Given) :
        Scenario(Given, a, b, c) =>
          /\ Range(Stored.index) = {b, c}
          /\ RowAt(Stored, c).frequency = 9
          /\ RowAt(Stored, c).frequency > RowAt(Stored, b).frequency

\* C6 as amended: on the scenario's input the RFM Builder retains exactly B and
\* C, C's frequency is 10, the number of its transactions with the first one
\* counted, B's is 3, and C's exceeds B's.
C6_FrequencyCountsAll ==
  BuilderRan =>
    \A a \in CustomersOf(Given) : \A b \in CustomersOf(Given) :
      \A c \in CustomersOf(Given) :
        Scenario(Given, a, b, c) =>
          /\ Range(Stored.index) = {b, c}
          /\ Len(Stored.index) = 2
          /\ RowAt(Stored, c).frequency = 10
          /\ RowAt(Stored, b).frequency = 3
          /\ RowAt(Stored, c).frequency > RowAt(Stored, b).frequency
          /\ Range(m.frequency.index) = {b, c}
          /\ At(m.frequency, c) = 10

C6_Witness ==
  /\ BuilderRan
  /\ Scenario(Given, 1, 2, 3)
  /\ Range(Stored.index) = {2, 3}
  /\ RowAt(Stored, 3).frequency = 10

\* C7 as claimed: a customer with exactly one transaction has recency equal to
\* T and is excluded by the frequency filter.
C7_SingletonRecencyEqualsT ==
  BuilderRan =>
    \A c \in CustomersOf(Given) :
      TxCount(Given, c) = 1 =>
        /\ RatEq(RowAt(call.ret, c).recency, RowAt(call.ret, c).T)
        /\ ~Has(Stored, c)

\* C7 as amended: a customer with exactly one transaction has recency equal to
\* its last date minus its first date, 0 when the transaction has one date; its
\* T is the day after the last date of the engine's table minus that first
\* date, which is more than the recency when the builder ran on the engine's
\* own table; and the customer is excluded by the frequency filter.
C7_SingletonRecencyIsSpan ==
  BuilderRan =>
    \A c \in CustomersOf(Given) :
      TxCount(Given, c) = 1 =>
        /\ RowAt(call.ret, c).recency = Rat(LastDate(Given, c) - FirstDate(Given, c))
        /\ Cardinality(DatesOf(Given, c)) = 1 => RowAt(call.ret, c).recency = Rat(0)
        /\ RowAt(call.ret, c).T = Rat(MaxDateOf(m.df) + 1 - FirstDate(Given, c))
        /\ call.arg = "self" =>
             RatLt(RowAt(call.ret, c).recency, RowAt(call.ret, c).T)
        /\ ~Has(Stored, c)
        /\ RatEq(At(m.recency, c), <<LastDate(Given, c) - FirstDate(Given, c), 7>>)

C7_Witness ==
  /\ BuilderRan
  /\ \E c \in CustomersOf(Given) :
       /\ TxCount(Given, c) = 1
       /\ Cardinality(DatesOf(Given, c)) = 1
       /\ FirstDate(Given, c) = 1
       /\ RowAt(call.ret, c).recency = Rat(0)
       /\ RowAt(call.ret, c).T = Rat(2)

\* C8: in the stored CustomerRFM table each retained customer's recency is
\* (last purchase date - first purchase date) / 7 and its T is the raw T
\* day-count / 7, each divided by 7 once.
C8_WeeksDividedOnce ==
  BuilderRan =>
    \A c \in Range(Stored.index) :
      /\ RatEq(RowAt(Stored, c).recency,
               <<LastDate(Given, c) - FirstDate(Given, c), 7>>)
      /\ RatEq(RowAt(Stored, c).T,
               <<RowAt(call.ret, c).T[1], 7 * RowAt(call.ret, c).T[2]>>)
      /\ RowAt(call.ret, c).T[2] = 1

C8_Witness ==
  /\ BuilderRan
  /\ \E c \in Range(Stored.index) :
       /\ LastDate(Given, c) - FirstDate(Given, c) = 2
       /\ RatEq(RowAt(Stored, c).recency, <<2, 7>>)
       /\ RatEq(RowAt(Stored, c).T, <<3, 7>>)

\* C9: the raw T day-count of each customer is now - its first purchase date,
\* now being the maximum date of the table given to the RFM Builder plus 1 day.
C9_TFromGivenTable ==
  BuilderRan =>
    \A c \in CustomersOf(Given) :
      RowAt(call.ret, c).T = Rat(MaxDateOf(Given) + 1 - FirstDate(Given, c))

\* C10: the monetary of every retained customer is the sum of its sales_amount
\* over all its rows divided by its frequency.
C10_MonetaryIsTotalOverFrequency ==
  BuilderRan =>
    \A c \in Range(Stored.index) :
      RatEq(RowAt(Stored, c).monetary,
            <<TotalSales(Given, c), RowAt(Stored, c).frequency>>)

C10_Witness ==
  /\ BuilderRan
  /\ \E c \in Range(Stored.index) :
       /\ TotalSales(Given, c) = 5
       /\ RowAt(Stored, c).frequency = 2
       /\ RatEq(RowAt(Stored, c).monetary, <<5, 2>>)

\* C11 as claimed: when the table lacks unit_price or quantity, the Aggregator
\* fails with a MissingColumnError and adds no sales_amount column.
C11_MissingColumnError ==
  [][(call'.op = "calculate_sales_amount"
      /\ (Lacks(ArgTable(call'.arg), "unit_price")
          \/ Lacks(ArgTable(call'.arg), "quantity"))) =>
       /\ call'.err = "MissingColumnError"
       /\ m' = m
       /\ udf' = udf]_vars

\* C11 as amended: when the table lacks unit_price or quantity, the Aggregator
\* fails with a ValueError and leaves the table, and the engine, as they were:
\* no sales_amount column is added and self.sales_amount is not set.
C11_MissingColumnValueError ==
  [][(call'.op = "calculate_sales_amount"
      /\ (Lacks(ArgTable(call'.arg), "unit_price")
          \/ Lacks(ArgTable(call'.arg), "quantity"))) =>
       /\ call'.err = "ValueError"
       /\ IsNone(call'.ret)
       /\ m' = m
       /\ udf' = udf]_vars

C11_Witness ==
  /\ call.op = "calculate_sales_amount"
  /\ call.err = "ValueError"
  /\ Lacks(Given, "quantity")
  /\ "unit_price" \in Given.cols
  /\ Len(Given.rows) = 1
  /\ "sales_amount" \notin Given.cols
  /\ IsNone(m.sales_amount)

\* C12: given a table with zero rows, the Aggregator raises an error (the
\* spec's EmptyDatasetError) before it reads any column.
C12_EmptyTableRejected ==
  [][(call'.op = "calculate_sales_amount" /\ Empty(ArgTable(call'.arg))) =>
       /\ call'.err # ""
       /\ m' = m
       /\ udf' = udf]_vars

\* The columns the RFM Builder requires of its table.
BuilderCols == {"date", "customer_id", "transaction_id", "sales_amount"}

\* C13: when its table lacks one of date, customer_id, transaction_id and
\* sales_amount, the RFM Builder fails with the missing-column error: the
\* spec's MissingColumnError, or the ValueError the code documents for it.
C13_MissingColumnRejected ==
  [][(call'.op = "calculate_cltv_pr"
      /\ \E c \in BuilderCols : Lacks(ArgTable(call'.arg), c)) =>
       call'.err \in {"MissingColumnError", "ValueError"}]_vars

\* C14: when its table has zero rows (and every required column), the RFM
\* Builder fails, with the spec's EmptyDatasetError or any other error,
\* instead of producing a CustomerRFM table.
C14_EmptyTableRejected ==
  [][(call'.op = "calculate_cltv_pr"
      /\ Empty(ArgTable(call'.arg))
      /\ BuilderCols \subseteq ArgTable(call'.arg).cols) =>
       /\ call'.err # ""
       /\ m'.customer_summary_pr = m.customer_summary_pr]_vars

\* C15: the monetary-model fit on a population that has a customer with
\* frequency <= 1 raises an error (the spec's PreconditionError) and leaves
\* the model unfitted.
C15_LowFrequencyRejected ==
  [][(call'.op = "fit_ggf_model"
      /\ ~IsNone(FitTable(call'.arg))
      /\ \E i \in 1..Len(FitTable(call'.arg).rows) :
           FitTable(call'.arg).rows[i].frequency <= 1) =>
       /\ call'.err # ""
       /\ m'.ggf = m.ggf]_vars

\* The Segmenter has just succeeded.
Segmented == call.op = "create_segments" /\ call.err = ""

\* The CLV of row i of a table, a whole number, and the customers of a label.
ClvAt(t, i) == t.rows[i].clv[1]
GroupOf(t, l) == {i \in 1..Len(t.rows) : t.rows[i].segment = l}
DistinctClv(t) == {ClvAt(t, i) : i \in 1..Len(t.rows)}

\* C16: whenever the Segmenter succeeds for a requested num_segments, it
\* produces exactly num_segments non-empty groups whose sizes differ by at
\* most 1.
C16_EqualGroups ==
  Segmented =>
    LET labels == Range(LabelsFor(call.num_segments))
    IN /\ \A l \in labels : GroupOf(udf, l) # {}
       /\ \A k, l \in labels :
            Cardinality(GroupOf(udf, k)) - Cardinality(GroupOf(udf, l)) <= 1

\* The place of a label in the order D < C < B < A.
LabelRank(l) == CHOOSE k \in 1..4 : <<"D", "C", "B", "A">>[k] = l

\* C17: with the default labels, after the Segmenter succeeds, a customer with
\* a lower CLV never has a higher segment than one with a higher CLV, in the
\* table and in the sorted copy returned; the customers of the lowest CLV are
\* labelled D and those of the highest A.
C17_LabelsOrdinal ==
  (Segmented /\ call.num_segments = NumSegments) =>
    /\ \A i, j \in 1..Len(udf.rows) :
         ClvAt(udf, i) < ClvAt(udf, j) =>
           LabelRank(udf.rows[i].segment) <= LabelRank(udf.rows[j].segment)
    /\ \A i \in 1..Len(udf.rows) :
         /\ ClvAt(udf, i) = SetMin(DistinctClv(udf)) => udf.rows[i].segment = "D"
         /\ ClvAt(udf, i) = SetMax(DistinctClv(udf)) => udf.rows[i].segment = "A"
    /\ \A i \in 1..Len(call.ret.rows) :
         \E j \in 1..Len(udf.rows) : call.ret.rows[i] = udf.rows[j]
    /\ m.segment = Col(udf, "segment")

C17_Witness ==
  /\ Segmented
  /\ call.num_segments = NumSegments
  /\ Len(udf.rows) = 5
  /\ \A l \in {"D", "C", "B", "A"} : GroupOf(udf, l) # {}
  /\ Cardinality(GroupOf(udf, "D")) = 2

\* C18: whenever the customers have fewer distinct CLV values than the
\* requested segment count, the Segmenter fails (with the spec's
\* InsufficientDataError or any other error) and assigns no segment.
C18_TooFewValuesRejected ==
  [][(call'.op = "create_segments"
      /\ Cardinality(DistinctClv(udf)) < call'.num_segments) =>
       /\ call'.err # ""
       /\ udf' = udf
       /\ m'.segment = m.segment]_vars

\* The customers of the engine's data with more than one transaction.
Repeaters == {c \in CustomersOf(m.df) : TxCount(m.df, c) > 1}
Summarised == ~IsNone(m.customer_summary) /\ Len(m.customer_summary.rows) > 0

\* C19: on a population in which no customer has more than one transaction,
\* calculate_repeat_rate raises no exception, warns and yields (returns and
\* stores) 0, and calculate_churn_rate then yields 1.
C19_NoRepeatersSoftFailure ==
  [][(Summarised /\ Repeaters = {}) =>
       /\ call'.op = "calculate_repeat_rate" =>
            /\ call'.err = ""
            /\ call'.warn = "Warning"
            /\ call'.ret = Number(Rat(0))
            /\ m'.repeat_rate = Number(Rat(0))
       /\ (call'.op = "calculate_churn_rate" /\ ~IsNone(m.repeat_rate)) =>
            /\ call'.err = ""
            /\ call'.ret = Number(Rat(1))
            /\ m'.churn_rate = Number(Rat(1))]_vars

C19_Witness ==
  /\ Ok("calculate_churn_rate")
  /\ Summarised
  /\ Cardinality(CustomersOf(m.df)) = 3
  /\ Repeaters = {}
  /\ m.repeat_rate = Number(Rat(0))
  /\ m.churn_rate = Number(Rat(1))

\* C20: for a non-empty customer summary, the repeat rate is the number of
\* customers with more than one transaction over the number of customers, the
\* churn rate is 1 - the repeat rate, and both are between 0 and 1.
C20_RatesAreFractions ==
  LET k == Cardinality(Repeaters)
      n == Cardinality(CustomersOf(m.df))
      Unit(x) == RatLe(Rat(0), x) /\ RatLe(x, Rat(1))
  IN /\ (Ok("calculate_repeat_rate") /\ Summarised) =>
          /\ RatEq(call.ret.val, <<k, n>>)
          /\ m.repeat_rate = call.ret
          /\ Unit(call.ret.val)
     /\ (Ok("calculate_churn_rate") /\ Summarised) =>
          /\ RatEq(call.ret.val, <<n - k, n>>)
          /\ m.churn_rate = call.ret
          /\ RatEq(call.ret.val, OneMinus(m.repeat_rate.val))
          /\ Unit(call.ret.val)
          /\ Unit(m.repeat_rate.val)

C20_Witness ==
  /\ Ok("calculate_churn_rate")
  /\ Summarised
  /\ Cardinality(CustomersOf(m.df)) = 3
  /\ Cardinality(Repeaters) = 2
  /\ RatEq(m.repeat_rate.val, <<2, 3>>)
  /\ RatEq(m.churn_rate.val, <<1, 3>>)

----------------------------------------------------------------------------
\* The customer summary the engine stores, and the row of a customer in it.
Summary == m.customer_summary
SummaryRow(S, c) == S.rows[Pos(S.index, c)]

\* C28: calculate_cltv called with a stored churn rate of 0 raises an error and
\* stores no CLV; otherwise, when it returns, every customer's clv is
\* (customer_value / churn_rate) * profit_margin.
C28_SimpleClvGuarded ==
  [][call'.op = "calculate_cltv" =>
       IF ~IsNone(m.churn_rate) /\ RatEq(m.churn_rate.val, Rat(0))
       THEN call'.err # "" /\ m'.cltv = m.cltv
       ELSE call'.err = "" =>
              \A c \in Range(Summary'.index) :
                LET r == SummaryRow(Summary', c)
                IN r.clv = RatMul(RatDivRat(r.customer_value, m.churn_rate.val),
                                  r.profit_margin)]_vars

\* C26: the customer summary has exactly one row per distinct customer_id of
\* the sales table; a row's total_transactions is the customer's number of
\* distinct transaction_ids, at least 1, and its total_sales_amount is the sum
\* of the customer's sales_amount.
C26_SummaryPerCustomer ==
  Ok("calculate_customer_summary") =>
    /\ Cardinality(Range(Summary.index)) = Len(Summary.index)
    /\ Range(Summary.index) = CustomersOf(m.df)
    /\ Summary.cols = {"total_transactions", "total_sales_amount"}
    /\ \A c \in CustomersOf(m.df) :
         LET r == SummaryRow(Summary, c)
         IN /\ r.total_transactions = TxCount(m.df, c)
            /\ r.total_transactions >= 1
            /\ r.total_sales_amount = TotalSales(m.df, c)
    /\ call.ret = Summary

\* A summary over three customers, one of them with several sales lines in one
\* transaction and one with several transactions.
C26_Witness ==
  /\ Ok("calculate_customer_summary")
  /\ Cardinality(CustomersOf(m.df)) = PipeCust
  /\ \E c \in CustomersOf(m.df) :
       /\ SummaryRow(Summary, c).total_transactions = 1
       /\ Len(RowsOf(m.df, c)) > 1
  /\ \E c \in CustomersOf(m.df) : SummaryRow(Summary, c).total_transactions > 1

AddsSalesAmount(before, after) ==
  /\ after.cols = before.cols \cup {"sales_amount"}
  /\ after.index = before.index
  /\ after.iname = before.iname
  /\ Len(after.rows) = Len(before.rows)
  /\ \A i \in 1..Len(before.rows) :
       \A k \in before.cols \ {"sales_amount"} : after.rows[i][k] = before.rows[i][k]

\* C22 as stated: a call of the Aggregator that returns adds the sales_amount
\* column to the table it is given and changes nothing else: no other column,
\* not the other table, no attribute of the engine.
C22_AggregatorOnlyAddsColumn ==
  [][(call'.op = "calculate_sales_amount" /\ call'.err = "") =>
       /\ AddsSalesAmount(IF call'.arg = "udf" THEN udf ELSE m.df,
                          IF call'.arg = "udf" THEN udf' ELSE m'.df)
       /\ IF call'.arg = "udf" THEN m'.df = m.df ELSE udf' = udf
       /\ [m' EXCEPT !.df = m.df] = m
       /\ db' = db]_vars

\* C22: a call of the Aggregator that returns adds the sales_amount column to
\* the table it is given and sets the engine's sales_amount attribute to that
\* column; no other column, not the other table and no other attribute of the
\* engine is changed.
C22_AggregatorAddsColumnAndAttribute ==
  [][(call'.op = "calculate_sales_amount" /\ call'.err = "") =>
       /\ AddsSalesAmount(IF call'.arg = "udf" THEN udf ELSE m.df,
                          IF call'.arg = "udf" THEN udf' ELSE m'.df)
       /\ IF call'.arg = "udf" THEN m'.df = m.df ELSE udf' = udf
       /\ [m' EXCEPT !.df = m.df, !.sales_amount = m.sales_amount] = m
       /\ m'.sales_amount =
            Col(IF call'.arg = "udf" THEN udf' ELSE m'.df, "sales_amount")
       /\ db' = db]_vars

\* The Aggregator has run on the caller's table while the engine holds a table
\* of its own and a customer table built earlier.
C22_Witness ==
  /\ AggregatorRan
  /\ call.arg = "udf"
  /\ ~IsNone(m.df)
  /\ ~IsNone(Stored)
  /\ m.sales_amount = Col(udf, "sales_amount")

\* C29: after the RFM Builder has run, the engine's recency, T, frequency and
\* monetary attributes all cover exactly the customers of the stored
\* CustomerRFM table, which are those with frequency > 1.
C29_AttributesCoverStoredCustomers ==
  BuilderRan =>
    /\ \A r \in Range(Stored.rows) : r.frequency > 1
    /\ m.frequency.index = Stored.index
    /\ m.recency.index = Stored.index
    /\ m.T.index = Stored.index
    /\ m.monetary.index = Stored.index

\* C30: the table the RFM Builder returns is the CustomerRFM table the engine
\* stores: the customers with frequency > 1 only, recency and T in weeks.
C30_ReturnedIsStored ==
  BuilderRan =>
    /\ call.ret = Stored
    /\ \A r \in Range(call.ret.rows) : r.frequency > 1
    /\ \A c \in Range(call.ret.index) :
         LET r == RowAt(call.ret, c)
         IN /\ RatEq(r.recency, RatDiv(Rat(LastDate(Given, c) - FirstDate(Given, c)),
                                       DaysPerWeek))
            /\ RatEq(r.T, RatDiv(Rat(MaxDateOf(m.df) + DefaultDays - FirstDate(Given, c)),
                                 DaysPerWeek))

\* The columns of the CustomerRFM table.
RfmCols == {"recency", "T", "frequency", "monetary"}

\* The customers of a sales table with more than one transaction.
Retained(t) == {c \in CustomersOf(t) : TxCount(t, c) > 1}

\* The value the RFM Builder derives for customer c from the sales table t
\* alone: recency and T in weeks, the number of transactions, the average sale.
RfmOf(t, c) ==
  [recency |-> <<LastDate(t, c) - FirstDate(t, c), DaysPerWeek>>,
   T |-> <<MaxDateOf(t) + DefaultDays - FirstDate(t, c), DaysPerWeek>>,
   frequency |-> TxCount(t, c),
   monetary |-> <<TotalSales(t, c), TxCount(t, c)>>]

\* C24: a run of the RFM Builder on an engine that holds the customer table of
\* an earlier run (as later stages left it) gives what a run on the sales
\* table alone gives: the stored table has the four RFM columns only and the
\* retained customers only, and it and the recency, T, frequency and monetary
\* attributes hold the values derived from the sales table, so that two runs
\* on an identical sales table give equal results; the run changes the stored
\* table only where a later stage had extended it.
C24_RerunRecomputes ==
  [][(call'.op = "calculate_cltv_pr" /\ call'.err = "" /\ ~IsNone(Stored)) =>
       /\ Stored'.cols = RfmCols
       /\ Range(Stored'.index) = Retained(m.df)
       /\ Len(Stored'.index) = Cardinality(Retained(m.df))
       /\ m'.frequency = Col(Stored', "frequency")
       /\ \A c \in Retained(m.df) :
            LET r == RowAt(Stored', c)
            IN /\ r.frequency = RfmOf(m.df, c).frequency
               /\ RatEq(r.recency, RfmOf(m.df, c).recency)
               /\ RatEq(r.T, RfmOf(m.df, c).T)
               /\ RatEq(r.monetary, RfmOf(m.df, c).monetary)
       /\ Range(m'.recency.index) = CustomersOf(m.df)
       /\ m'.T.index = m'.recency.index
       /\ m'.monetary.index = m'.recency.index
       /\ \A c \in CustomersOf(m.df) :
            /\ RatEq(At(m'.recency, c), RfmOf(m.df, c).recency)
            /\ RatEq(At(m'.T, c), RfmOf(m.df, c).T)
            /\ RatEq(At(m'.monetary, c), RfmOf(m.df, c).monetary)
       /\ Stored # Stored' => Stored.cols # RfmCols]_vars

\* The RFM Builder has run again on an engine whose customer table the later
\* stages had extended with their columns.
C24_Witness ==
  /\ BuilderRan
  /\ Stored.cols = RfmCols
  /\ Len(Stored.rows) > 1
  /\ ~IsNone(m.cltv_pred)
  /\ ~IsNone(m.segment)
  /\ merges > 0

\* The operations of the engine other than the two model fits.
StagesOtherThanFits ==
  {"calculate_sales_amount", "calculate_customer_summary",
   "calculate_average_order_value", "calculate_purchase_frequency",
   "calculate_repeat_rate", "calculate_churn_rate", "calculate_profit_margin",
   "calculate_customer_value", "calculate_cltv", "calculate_cltv_pr",
   "predict_purchases", "calculate_expected_average_profit",
   "calculate_cltv_prediction", "merge_cltv_predictions", "create_segments"}

\* C21: whenever an operation of the engine (the Aggregator, the customer
\* summary and its metrics, the RFM Builder, a prediction, the merge or the
\* Segmenter) raises an error, the engine's stored tables and attributes and
\* the caller's table are exactly what they were before the call.
C21_NoPartialResults ==
  [][(call'.err # "" /\ call'.op \in StagesOtherThanFits) =>
       (m' = m /\ udf' = udf /\ db' = db)]_vars

\* A stage has raised on an engine that holds the results of earlier stages:
\* the Segmenter on a merged customer table, or the simple CLV on a summary
\* with its metrics.
C21_Witness ==
  \/ /\ call.op = "create_segments"
     /\ call.err # ""
     /\ ~IsNone(Stored)
     /\ "clv" \in Stored.cols
     /\ ~IsNone(Summary)
  \/ /\ call.op = "calculate_cltv"
     /\ call.err = "TypeError"
     /\ ~IsNone(m.customer_value)
     /\ ~IsNone(Stored)

\* The engine holds the sales table the Aggregator made.
SalesTableMade == ~IsNone(m.df) /\ "sales_amount" \in m.df.cols

\* C23: once the Aggregator has made the sales table, no later stage, in any
\* order (the customer summary and its metrics, the RFM Builder, the fits, the
\* predictions, the CLV projection, the merge, the segmentation), changes a row
\* or a column of it, whether the stage returns or raises.
C23_SalesTableNeverMutated ==
  [][(SalesTableMade /\ call'.op \notin {"load_data", "calculate_sales_amount"}) =>
       (m'.df = m.df /\ udf' = udf)]_vars

\* The simple CLV and the segmentation have both been computed from the sales
\* table.
C23_Witness ==
  /\ SalesTableMade
  /\ Ok("create_segments")
  /\ ~IsNone(m.cltv)
  /\ ~IsNone(m.segment)
  /\ merges > 0

\* The attributes a stage called with default arguments reads from the engine,
\* each populated by an earlier stage.
Needs(op) ==
  CASE op = "calculate_sales_amount" -> {"df"}
    [] op = "calculate_customer_summary" -> {"df", "sales_amount"}
    [] op = "calculate_average_order_value" ->
         {"customer_summary", "total_sales_amount", "total_transactions"}
    [] op = "calculate_purchase_frequency" -> {"customer_summary", "total_transactions"}
    [] op = "calculate_repeat_rate" -> {"customer_summary", "total_transactions"}
    [] op = "calculate_churn_rate" -> {"repeat_rate"}
    [] op = "calculate_profit_margin" -> {"customer_summary", "total_sales_amount"}
    [] op = "calculate_customer_value" ->
         {"customer_summary", "average_order_value", "purchase_frequency"}
    [] op = "calculate_cltv" ->
         {"customer_summary", "churn_rate", "customer_value", "profit_margin"}
    [] op = "calculate_cltv_pr" -> {"df", "sales_amount"}
    [] op = "fit_bgf_model" -> {"customer_summary_pr"}
    [] op = "fit_ggf_model" -> {"customer_summary_pr"}
    [] op = "predict_purchases" ->
         {"customer_summary_pr", "frequency", "recency", "T", "bgf"}
    [] op = "calculate_expected_average_profit" -> {"customer_summary_pr", "ggf"}
    [] op = "calculate_cltv_prediction" ->
         {"frequency", "recency", "T", "monetary", "bgf", "ggf"}
    [] op = "merge_cltv_predictions" -> {"df", "customer_summary_pr", "cltv_pred"}
    [] op = "create_segments" -> {"customer_summary_pr"}
    [] OTHER -> {}

\* An attribute no stage has populated yet: still None, or a model not fitted.
Unpopulated(self, a) ==
  IF a \in {"bgf", "ggf"} THEN self[a] = "unfitted" ELSE IsNone(self[a])

\* C27: a stage called with default arguments while an attribute it needs is
\* still unpopulated fails with an error and changes nothing; so does the
\* Segmenter while the stored customer table has no clv column from the merge.
C27_UnpopulatedAttributeFails ==
  [][(\/ \E a \in Needs(call'.op) : Unpopulated(m, a)
      \/ /\ call'.op = "create_segments"
         /\ ~IsNone(Stored)
         /\ "clv" \notin Stored.cols) =>
       (call'.err # "" /\ m' = m)]_vars

\* Stages have failed for want of an attribute on an engine that holds the
\* results of other stages: the churn rate without a repeat rate, the simple
\* CLV without a profit margin, the Segmenter without the merge.
C27_Witness ==
  \/ /\ call.op = "calculate_churn_rate" /\ call.err # ""
     /\ ~IsNone(Summary) /\ ~IsNone(Stored)
  \/ /\ call.op = "calculate_cltv" /\ call.err # ""
     /\ ~IsNone(m.customer_value) /\ IsNone(m.profit_margin)
  \/ /\ call.op = "create_segments" /\ call.err # ""
     /\ ~IsNone(Stored) /\ ~IsNone(m.cltv_pred) /\ "clv" \notin Stored.cols

====
